---- MODULE Spec2Model ----
(***************************************************************************)
(* Dispatch-configuration planner of the reusable simple concat primitive  *)
(* (src/gpu/intel/reusable_simple_concat.cpp): init_conf_common with its   *)
(* two strategies, and the argument builder of execute_concat.             *)
(***************************************************************************)
EXTENDS Integers, Sequences, FiniteSets, TLC

\* ------------------------------------------------------------------ bounds
\* largest number of sources of one concat request
MaxInputs == 3
\* largest logical concat extent of one source
MaxExt == 2
\* largest number of execute_concat calls on one primitive
MaxExec == 2
\* candidates in one list of the candidate search taken alone
MaxCands == 2
\* largest block length of such a candidate
MaxBlock == 2
\* largest outer extent of the two-source scenarios
MaxScenarioOuter == 4

\* std::numeric_limits<int>::max()
IntMax == 2147483647

VARIABLES
    pd,         \* the concat request: destination and source layouts
    dev,        \* the device capabilities
    pc,         \* position inside init_conf_common / primitive lifetime
    idx,        \* loop index of the add_source loop
    normalize,  \* the normalization_t object of init_conf_common
    conf,       \* reusable_simple_concat_params_t (PlanConfig)
    rt_conf,    \* reusable_simple_concat_runtime_params_t (RuntimeGeometry)
    status,     \* status returned by init_conf ("none" while running)
    calls,      \* history: the strategies run, with the status each returned
    examined,   \* history: the source indices handed to add_source
    infos,      \* the candidate list of the last general-strategy run
    arg_list,   \* the argument list built by the last execute_concat
    dispatch,   \* the kernels the last execute_concat dispatched, its status
    execs       \* number of execute_concat calls so far

vars == <<pd, dev, pc, idx, normalize, conf, rt_conf, status, calls, examined,
          infos, arg_list, dispatch, execs>>

\* ----------------------------------------------------------- arithmetic
Min(a, b) == IF a <= b THEN a ELSE b
Max(a, b) == IF a >= b THEN a ELSE b

\* utils::div_up
div_up(a, b) == (a + b - 1) \div b
\* utils::rnd_up
rnd_up(a, b) == div_up(a, b) * b

RECURSIVE gcd(_, _)
\* math::gcd
gcd(a, b) == IF b = 0 THEN a ELSE gcd(b, a % b)

\* dim_t holds 64-bit values; a value that may exceed 31 bits is kept as two
\* limbs <<hi, lo>> standing for hi * LimbBase + lo, 0 <= lo < LimbBase.
LimbBase == 2 ^ 15
BigOf(n) == <<n \div LimbBase, n % LimbBase>>
BigMul(a, m) ==
    LET l == a[2] * m IN <<a[1] * m + (l \div LimbBase), l % LimbBase>>
BigAdd(a, k) ==
    LET l == a[2] + k IN <<a[1] + (l \div LimbBase), l % LimbBase>>
BigDiv(a, d) ==
    LET r == a[1] % d IN <<a[1] \div d, (r * LimbBase + a[2]) \div d>>
BigMod(a, d) == ((a[1] % d) * LimbBase + a[2]) % d
BigGt(a, b) == a[1] > b[1] \/ (a[1] = b[1] /\ a[2] > b[2])
BigMax(a, b) == IF BigGt(b, a) THEN b ELSE a
BigDivUp(a, d) == BigDiv(BigAdd(a, d - 1), d)
BigRndUp(a, d) == BigMul(BigDivUp(a, d), d)
\* the value of a, or cap when it is larger (cap < 2^31)
BigClamp(a, cap) ==
    IF BigGt(a, BigOf(cap)) THEN cap ELSE a[1] * LimbBase + a[2]

\* the largest element of a non-empty finite set of integers
SetMax(S) == CHOOSE x \in S : \A y \in S : y <= x

RECURSIVE SumSeq(_)
SumSeq(s) == IF s = <<>> THEN 0 ELSE s[1] + SumSeq(Tail(s))

\* ------------------------------------------------ the request (concat_pd_t)
\* A request is a record
\*   fmt     destination format kind is format_kind::blocked
\*   dts     element byte size
\*   blk     length of the inner block on the concat axis (1: plain layout)
\*   outer   product of the dims before the concat axis
\*   inner   product of the dims after the concat axis
\*   stride  "dense", "dst" (destination rows padded: a view into a larger
\*           buffer) or "src" (the sources are views into larger buffers)
\*   srcs    the sources: logical concat extent, and whether add_source
\*           accepts the layout
n_inputs(p) == Len(p.srcs)

\* padded_dims of a blocked layout: the extent rounded up to the block
PaddedExt(p, e) == rnd_up(e, p.blk)

\* pd->src_md(i) after normalize(src_md): the 3-axis view of source i (1-based)
SrcView(p, i) ==
    LET e == p.srcs[i].ext
        pe == PaddedExt(p, e)
        dense == pe * p.inner
    IN [dims_concat |-> e,
        padded_concat |-> pe,
        stride_outer |-> IF p.stride = "src" THEN 4 * dense ELSE dense]

\* pd->dst_md() after normalize(dst_md)
DstView(p) ==
    LET e == SumSeq([i \in 1..Len(p.srcs) |-> p.srcs[i].ext])
        pe == PaddedExt(p, e)
        dense == pe * p.inner
    IN [dims_outer |-> p.outer,
        dims_concat |-> e,
        padded_concat |-> pe,
        dims_inner |-> p.inner,
        padded_inner |-> p.inner,
        stride_outer |-> IF p.stride = "dst" THEN dense + 1 ELSE dense,
        stride_concat |-> p.inner * p.blk,
        offset0 |-> IF p.stride = "dst" THEN 1 ELSE 0,
        inner_blks |-> IF p.blk > 1
                         THEN <<[blk |-> p.blk, idx |-> "concat"]>>
                         ELSE <<>>]

\* memory_desc_wrapper::size(): bytes spanned by the layout, 0 for a tensor
\* with a zero dimension
SrcBytes(p, i) ==
    IF SrcView(p, i).dims_concat = 0 THEN BigOf(0)
    ELSE BigMul(BigMul(BigOf(p.outer), SrcView(p, i).stride_outer), p.dts)
DstBytes(p) ==
    IF DstView(p).dims_concat = 0 THEN BigOf(0)
    ELSE BigMul(BigMul(BigOf(p.outer), DstView(p).stride_outer), p.dts)

\* pd->src_md(i)->padded_dims[concat_dim] == 0: the source is skipped
IsLive(p, i) == PaddedExt(p, p.srcs[i].ext) # 0

\* the raw indices of the live sources, in order
LiveIdx(p) == SelectSeq([i \in 1..Len(p.srcs) |-> i], LAMBDA i : IsLive(p, i))

\* --------------------------------------------------------- normalization_t
\* normalization_t(ref_dst_md, concat_dim)
NewNormalization(p) ==
    [data_type_size |-> p.dts,
     internal_padding |-> p.blk > 1 /\ DstView(p).dims_concat % p.blk # 0,
     write_size |-> IF p.blk > 1 THEN gcd(p.inner, p.blk) * p.dts
                                 ELSE p.inner * p.dts,
     read_size |-> 0]

\* normalization_t::add_source: the result, and the normalizer afterwards
AddSourceOk(p, i) == p.srcs[i].ok
AddSource(nrm, p, i) ==
    IF IsLive(p, i) /\ p.blk = 1
      THEN [nrm EXCEPT !.read_size =
              gcd(@, SrcView(p, i).padded_concat * p.inner * p.dts)]
      ELSE nrm

has_internal_padding(nrm) == nrm.internal_padding
max_write_size(nrm) == nrm.write_size
max_read_size(nrm) == IF nrm.read_size = 0 THEN nrm.write_size ELSE nrm.read_size
set_pessimistic_chunk_size(nrm) ==
    [nrm EXCEPT !.write_size = nrm.data_type_size,
                !.read_size = nrm.data_type_size]

\* ------------------------------------------------------------ the two plans
Slots == 0..(MaxInputs - 1)
BlockSlots == 0..1

\* reusable_simple_concat_params_t, default-initialised
Conf0 ==
    [n |-> 0, simd |-> 0, data_type_size |-> 0, read_block |-> 0,
     write_block |-> 0, n_blocks |-> 0,
     blocks |-> [b \in BlockSlots |-> 0], strides |-> [b \in BlockSlots |-> 0],
     bytes_per_workitem |-> 0,
     use_large_index |-> FALSE, use_internal_padding_kernel |-> FALSE]

\* reusable_simple_concat_runtime_params_t, default-initialised
RtConf0 ==
    [offset |-> [k \in Slots |-> 0], padded_offset |-> [k \in Slots |-> 0],
     src_extern_dim_sizes |-> [k \in Slots |-> 0],
     dst_extern_dim_size |-> 0, dst_padded_concat_axis |-> 0,
     dst_concat_axis |-> 0, dst_offset0 |-> 0, inner_axis |-> 0,
     gws0_block |-> 0, read_overlap |-> 0,
     src_concat_axis0 |-> 0, padded_src_concat_axis0 |-> 0,
     src_concat_axis1 |-> 0, padded_src_concat_axis1 |-> 0,
     gws_d |-> <<0, 0, 0>>, lws_d |-> <<0, 0, 0>>]

\* compute::get_optimal_lws: the local size the device oracle returns
get_optimal_lws(gws) ==
    [d \in 1..3 |-> SetMax({w \in {1, 2, 4, 8} : gws[d] % w = 0})]

\* the lane widths and byte groups the searches walk, in the code's order
SimdOrder == <<32, 16, 8, 1>>
BytesOrder == <<8, 4, 2, 1>>

\* a device filter that tests the maximum sub-group size only
SimdUsable_SizeOnly(dv, simd) == ~(simd > dv.max_sg_size)
\* lines 57-58 and 234-235: the device filter on a lane width
SimdUsable(dv, simd) ==
    /\ ~(simd > dv.max_sg_size)
    /\ ~(simd > 1 /\ simd \notin dv.sub_groups)

\* max_bytes > std::numeric_limits<int>::max()
ExceedsInt(bytes) == BigGt(bytes, BigOf(IntMax))

\* ---- prb_info_t
RECURSIVE LargestDivisorUpTo(_, _)
LargestDivisorUpTo(n, l) ==
    IF l <= 1 THEN l ELSE IF n % l = 0 THEN l ELSE LargestDivisorUpTo(n, l - 1)

\* prb_info_t::prb_info_t: the block length of a candidate, the largest read
\* of at most max_elems elements and max_read_size bytes that is a divisor or
\* a multiple of the write granularity
InfoBlock(type_size, max_elems, max_read, max_write) ==
    LET cap == max_read \div type_size
        l == BigClamp(max_elems, cap)
        inner_elems == max_write \div type_size
    IN IF l >= inner_elems /\ inner_elems > 0
         THEN (l \div inner_elems) * inner_elems
         ELSE LargestDivisorUpTo(inner_elems, l)

\* prb_info_t::operator<: larger block first, then larger lane width, then
\* smaller byte group
InfoLess(a, b) ==
    IF a.block # b.block THEN a.block > b.block
    ELSE IF a.simd # b.simd THEN a.simd > b.simd
    ELSE a.type_size < b.type_size

\* a selection that takes the first enumerated candidate
SortedFirst_Head(list) == list[1]
\* std::sort(infos.begin(), infos.end()); infos[0]
SortedFirst(list) ==
    CHOOSE a \in {list[k] : k \in 1..Len(list)} :
        \A k \in 1..Len(list) : ~InfoLess(list[k], a)

\* ---- candidate search of the general strategy (lines 55-72)
\* a search that accepts every byte group
WriteSizeFits_Any(max_write, bytes) == TRUE
\* line 61
WriteSizeFits(max_write, bytes) == max_write % bytes = 0

\* lines 62-67
MaxElems(dst_bytes, dv, simd, bytes) ==
    LET total_elems == BigDiv(dst_bytes, bytes)
        concurrent_elems == BigDivUp(BigMul(total_elems, simd), dv.hw_threads)
        elems_per_reg == dv.register_bytes \div bytes
    IN BigRndUp(concurrent_elems, elems_per_reg)

\* the test of line 68 with its sense inverted
LaneFits_Inverted(simd, max_elems) == BigGt(BigOf(simd), max_elems)
\* line 68: simd > max_elems skips the candidate
LaneFits(simd, max_elems) == ~BigGt(BigOf(simd), max_elems)

Accepted(nrm, p, dv, simd, bytes) ==
    /\ SimdUsable(dv, simd)
    /\ WriteSizeFits(max_write_size(nrm), bytes)
    /\ LaneFits(simd, MaxElems(DstBytes(p), dv, simd, bytes))

PairOrder ==
    [k \in 1..16 |-> [simd |-> SimdOrder[((k - 1) \div 4) + 1],
                      bytes |-> BytesOrder[((k - 1) % 4) + 1]]]

Candidates(nrm, p, dv) ==
    LET kept == SelectSeq(PairOrder,
                    LAMBDA c : Accepted(nrm, p, dv, c.simd, c.bytes))
    IN [k \in 1..Len(kept) |->
          [simd |-> kept[k].simd, type_size |-> kept[k].bytes,
           block |-> InfoBlock(kept[k].bytes,
                         MaxElems(DstBytes(p), dv, kept[k].simd, kept[k].bytes),
                         max_read_size(nrm), max_write_size(nrm))]]

\* line 73
SearchFails(list) == list = <<>> \/ list[1].block = 0

\* ---- the source loop shared by both strategies (lines 78-97, 182-207)
\* a loop that skips no source
Skipped_None(p, i) == FALSE
\* line 81 / 185: the test that skips a source
Skipped(p, i) == ~IsLive(p, i)

\* lines 78, 94-95, 182, 195-196: int offset, padded_offset; offset += d
\* adds in dim_t and narrows the sum to the 32 bits of an int
IntAdd(a, d) ==
    IF a > 0 /\ d > IntMax - a THEN (a - IntMax - 1) + (d - IntMax - 1)
                               ELSE a + d

\* a loop whose padded running total advances by the logical extent
RECURSIVE SourceLoop_LogicalTotals(_, _, _, _)
SourceLoop_LogicalTotals(p, dts, i, acc) ==
    IF i > n_inputs(p) THEN acc
    ELSE IF Skipped(p, i) THEN SourceLoop_LogicalTotals(p, dts, i + 1, acc)
    ELSE LET v == SrcView(p, i)
             k == acc.nonempty_inputs
         IN SourceLoop_LogicalTotals(p, dts, i + 1,
              [acc EXCEPT
                 !.max_bytes = BigMax(@, SrcBytes(p, i)),
                 !.src_extern_dim_sizes[k] = v.stride_outer * dts,
                 !.offsets[k] = acc.offset,
                 !.padded_offsets[k] = acc.padded_offset,
                 !.final_padding = v.padded_concat - v.dims_concat,
                 !.offset = @ + v.dims_concat,
                 !.padded_offset = @ + v.dims_concat,
                 !.axis0 = IF k = 0 THEN <<v.dims_concat, v.padded_concat>> ELSE @,
                 !.axis1 = IF k = 1 THEN <<v.dims_concat, v.padded_concat>> ELSE @,
                 !.nonempty_inputs = @ + 1])

\* the loop state after the sources 1..i
RECURSIVE SourceLoop(_, _, _, _)
SourceLoop(p, dts, i, acc) ==
    IF i > n_inputs(p) THEN acc
    ELSE IF Skipped(p, i) THEN SourceLoop(p, dts, i + 1, acc)
    ELSE LET v == SrcView(p, i)
             k == acc.nonempty_inputs
         IN SourceLoop(p, dts, i + 1,
              [acc EXCEPT
                 !.max_bytes = BigMax(@, SrcBytes(p, i)),
                 !.src_extern_dim_sizes[k] = v.stride_outer * dts,
                 !.offsets[k] = acc.offset,
                 !.padded_offsets[k] = acc.padded_offset,
                 !.final_padding = v.padded_concat - v.dims_concat,
                 !.offset = IntAdd(@, v.dims_concat),
                 !.padded_offset = IntAdd(@, v.padded_concat),
                 !.axis0 = IF k = 0 THEN <<v.dims_concat, v.padded_concat>> ELSE @,
                 !.axis1 = IF k = 1 THEN <<v.dims_concat, v.padded_concat>> ELSE @,
                 !.nonempty_inputs = @ + 1])

LoopStart(p, r) ==
    [max_bytes |-> DstBytes(p), offset |-> 0, padded_offset |-> 0,
     nonempty_inputs |-> 0, final_padding |-> 0,
     offsets |-> r.offset, padded_offsets |-> r.padded_offset,
     src_extern_dim_sizes |-> r.src_extern_dim_sizes,
     axis0 |-> <<r.src_concat_axis0, r.padded_src_concat_axis0>>,
     axis1 |-> <<r.src_concat_axis1, r.padded_src_concat_axis1>>]

\* a destination extent that leaves out the padding of the last source
DstConcatAxis_Logical(dst_padded, offset, final_padding) ==
    Min(dst_padded, offset)
\* lines 104-105 / 214-215
DstConcatAxis(dst_padded, offset, final_padding) ==
    Min(dst_padded, offset + final_padding)

\* ---- the block loop (lines 108-121, 217-228): walks the destination's inner
\* blocks from the innermost; scale is data_type_size / type_size of the
\* innermost block (1 / 1 in the internal-padding strategy)
RECURSIVE BlockLoop(_, _, _, _, _)
BlockLoop(blks, i, num, den, acc) ==
    IF i < 1 THEN acc
    ELSE LET blk == IF i = Len(blks) THEN (blks[i].blk * num) \div den
                                     ELSE blks[i].blk
             nb == acc.n_blocks
             hit == blks[i].idx = "concat"
         IN BlockLoop(blks, i - 1, num, den,
              [n_blocks |-> IF hit THEN nb + 1 ELSE nb,
               blocks |-> IF hit THEN [acc.blocks EXCEPT ![nb] = blk]
                                 ELSE acc.blocks,
               strides |-> IF hit THEN [acc.strides EXCEPT ![nb] = acc.stride]
                                  ELSE acc.strides,
               stride |-> acc.stride * blk])

BlockStart(c) ==
    [n_blocks |-> 0, blocks |-> c.blocks, strides |-> c.strides, stride |-> 1]

\* a heuristic that looks at the byte group and not at the write block
PaddingRejected_ByteGroupOnly(write_block, type_size, dims_concat, padded_concat) ==
    type_size = 1 /\ 4 * dims_concat <= padded_concat
\* a heuristic that rejects nothing
PaddingRejected_Never(write_block, type_size, dims_concat, padded_concat) == FALSE
\* line 144-146: the padding-write heuristic of the general strategy
PaddingRejected(write_block, type_size, dims_concat, padded_concat) ==
    write_block * type_size = 1 /\ 4 * dims_concat <= padded_concat

\* ---- normalize_reusable_simple_concat (lines 30-155)
\* a first global dimension sized by the product, without the divisor
Gws0Block_Product(inner_axis, read_block) == inner_axis * read_block
\* lines 136-137
Gws0Block(inner_axis, read_block) ==
    (inner_axis * read_block) \div gcd(inner_axis, read_block)
\* a division that gives the inner rows per read block upside down
ReadOverlap_Inverted(gws0_block, inner_axis) == inner_axis \div gws0_block
\* line 138
ReadOverlap(gws0_block, inner_axis) == gws0_block \div inner_axis
\* lines 138, 140: a zero inner_axis or read_overlap is a divisor; the
\* integer division is undefined and the run ends without a plan
DividesByZero(inner_axis, read_overlap) == inner_axis = 0 \/ read_overlap = 0
\* lines 139-141
GeneralGws(gws0_block, simd, read_block, extern_axis, read_overlap, concat_dim_size) ==
    <<(gws0_block * simd) \div read_block, extern_axis \div read_overlap,
      concat_dim_size>>

\* lines 128-154: the plan written once the candidate info is chosen; lp is
\* the state after the source loop, bl after the block loop
GeneralPlan(c, r, nrm, list, info, lp, dst, bl, gws0_block) ==
    LET dts == nrm.data_type_size
        inner_axis == (dst.padded_inner * dts) \div info.type_size
        write_block == Min(info.block, max_write_size(nrm) \div info.type_size)
        read_overlap == ReadOverlap(gws0_block, inner_axis)
        gws == GeneralGws(gws0_block, info.simd, info.block, dst.dims_outer,
                   ReadOverlap(gws0_block, inner_axis), lp.padded_offset)
        c1 == [c EXCEPT !.n_blocks = bl.n_blocks, !.blocks = bl.blocks,
                        !.strides = bl.strides, !.n = lp.nonempty_inputs,
                        !.simd = info.simd, !.data_type_size = info.type_size,
                        !.read_block = info.block, !.write_block = write_block]
        r1 == [r EXCEPT !.src_extern_dim_sizes = lp.src_extern_dim_sizes,
                        !.offset = lp.offsets,
                        !.padded_offset = lp.padded_offsets,
                        !.dst_extern_dim_size = dst.stride_outer * dts,
                        !.dst_padded_concat_axis = dst.padded_concat,
                        !.dst_concat_axis = DstConcatAxis(dst.padded_concat,
                                                lp.offset, lp.final_padding),
                        !.inner_axis = (dst.stride_concat * dts) \div info.type_size,
                        !.dst_offset0 = (dst.offset0 * dts) \div info.type_size,
                        !.gws0_block = gws0_block,
                        !.read_overlap = read_overlap,
                        !.gws_d = gws]
    IN IF DividesByZero(inner_axis, read_overlap)
         THEN [status |-> "fault", conf |-> c, rt_conf |-> r, infos |-> list]
       ELSE IF PaddingRejected(write_block, info.type_size, dst.dims_concat,
              dst.padded_concat)
         THEN [status |-> "unimplemented", conf |-> c1, rt_conf |-> r1,
               infos |-> list]
         ELSE [status |-> "success",
               conf |-> [c1 EXCEPT !.use_large_index = ExceedsInt(lp.max_bytes)],
               rt_conf |-> [r1 EXCEPT !.lws_d = get_optimal_lws(gws)],
               infos |-> list]

\* lines 77-127: the loops run for the chosen candidate
GeneralChosen(c, r, p, nrm, list, info, dst) ==
    GeneralPlan(c, r, nrm, list, info,
        SourceLoop(p, nrm.data_type_size, 1, LoopStart(p, r)), dst,
        BlockLoop(dst.inner_blks, Len(dst.inner_blks), nrm.data_type_size,
            info.type_size, BlockStart(c)),
        Gws0Block((dst.padded_inner * nrm.data_type_size) \div info.type_size,
            info.block))

\* a search that stores the element size before it can fail
GeneralSearched_StoresFirst(c, r, p, nrm, list) ==
    IF SearchFails(list)
      THEN [status |-> "unimplemented",
            conf |-> [c EXCEPT !.data_type_size = nrm.data_type_size],
            rt_conf |-> r, infos |-> list]
      ELSE GeneralChosen(c, r, p, nrm, list, SortedFirst(list), DstView(p))

\* lines 73-75
GeneralSearched(c, r, p, nrm, list) ==
    IF SearchFails(list)
      THEN [status |-> "unimplemented", conf |-> c, rt_conf |-> r,
            infos |-> list]
      ELSE GeneralChosen(c, r, p, nrm, list, SortedFirst(list), DstView(p))

normalize_reusable_simple_concat(c, r, p, dv, nrm) ==
    GeneralSearched(c, r, p, nrm, Candidates(nrm, p, dv))

\* ---- try_normalize_ip_concat2 (lines 157-319)
\* line 231
PreferredBytesPerWorkitem == 16
\* line 277: dst_bytes > 5e5
ProblemSizeFloor == 500000
\* line 281
MinSubgroupAlignment == 4

\* a chunk of the preferred size for every element size
BytesPerWorkitem_Preferred(dts) == PreferredBytesPerWorkitem
\* lines 239-240
BytesPerWorkitem(dts) == IF dts = 8 THEN 8 ELSE PreferredBytesPerWorkitem

\* a lane search without the test of line 248
IpLaneOk_NoLaneFloor(dv, dts, dst_bytes, block0, simd) ==
    LET elems_per_simd == simd * (BytesPerWorkitem(dts) \div dts)
    IN /\ SimdUsable(dv, simd)
       /\ ~BigGt(BigOf(simd), BigDiv(dst_bytes, dts))
       /\ elems_per_simd % block0 = 0
       /\ elems_per_simd >= block0
\* lines 234-251: the lane width simd ends the search
IpLaneOk(dv, dts, dst_bytes, block0, simd) ==
    LET elems_per_simd == simd * (BytesPerWorkitem(dts) \div dts)
    IN /\ SimdUsable(dv, simd)
       /\ ~BigGt(BigOf(simd), BigDiv(dst_bytes, dts))
       /\ elems_per_simd % block0 = 0
       /\ elems_per_simd >= block0
       /\ simd >= block0

\* line 244: a lane width that passes the tests of lines 234-237 is taken
\* modulo blocks[0]; with blocks[0] zero the modulo is undefined and the run
\* ends without a plan
LaneModuloByZero(dv, dts, dst_bytes, block0) ==
    /\ block0 = 0
    /\ \E w \in {32, 16, 8, 1} :
         SimdUsable(dv, w) /\ ~BigGt(BigOf(w), BigDiv(dst_bytes, dts))

\* lines 230-255: max_simd after the loop
IpMaxSimd(dv, dts, dst_bytes, block0) ==
    LET ok == SelectSeq(SimdOrder,
                  LAMBDA w : IpLaneOk(dv, dts, dst_bytes, block0, w))
    IN IF ok = <<>> THEN 1 ELSE ok[1]

\* a block test that accepts every block length
SupportedBlockSize_AnyLength(n_blocks, block0) == n_blocks > 0
\* lines 291-293
SupportedBlockSize(n_blocks, block0) ==
    n_blocks > 0 /\ block0 \in {4, 8, 16, 32}

\* lines 280-289
CanSubgroupRead(dts, n_blocks, block0) ==
    IF dts < MinSubgroupAlignment
      THEN n_blocks > 0 /\ dts * block0 >= MinSubgroupAlignment
      ELSE TRUE

\* the eligibility test without the count of live sources
CanUseInternalPaddingConcat2_AnyCount(n, dts, n_blocks, block0, simd, inner, dst_bytes) ==
    /\ CanSubgroupRead(dts, n_blocks, block0)
    /\ block0 * inner > simd * (BytesPerWorkitem(dts) \div dts)
    /\ SupportedBlockSize(n_blocks, block0)
    /\ BigGt(dst_bytes, BigOf(ProblemSizeFloor))

\* lines 295-297
CanUseInternalPaddingConcat2(n, dts, n_blocks, block0, simd, inner, dst_bytes) ==
    LET loads_per_thread == BytesPerWorkitem(dts) \div dts
    IN /\ n = 2
       /\ CanSubgroupRead(dts, n_blocks, block0)
       /\ block0 * inner > simd * loads_per_thread
       /\ SupportedBlockSize(n_blocks, block0)
       /\ BigGt(dst_bytes, BigOf(ProblemSizeFloor))

try_normalize_ip_concat2(c, r, p, dv, nrm0) ==
    LET nrm == set_pessimistic_chunk_size(nrm0)
        dts == nrm.data_type_size
        dst_bytes == DstBytes(p)
        lp == SourceLoop(p, dts, 1, LoopStart(p, r))
        dst == DstView(p)
        bl == BlockLoop(dst.inner_blks, Len(dst.inner_blks), 1, 1,
                  BlockStart(c))
        c1 == [c EXCEPT !.read_block = 1, !.write_block = 1,
                        !.bytes_per_workitem = 0,
                        !.n_blocks = bl.n_blocks, !.blocks = bl.blocks,
                        !.strides = bl.strides]
        r1 == [r EXCEPT !.offset = lp.offsets,
                        !.padded_offset = lp.padded_offsets,
                        !.src_concat_axis0 = lp.axis0[1],
                        !.padded_src_concat_axis0 = lp.axis0[2],
                        !.src_concat_axis1 = lp.axis1[1],
                        !.padded_src_concat_axis1 = lp.axis1[2],
                        !.dst_extern_dim_size = dst.stride_outer * dts,
                        !.dst_padded_concat_axis = dst.padded_concat,
                        !.dst_concat_axis = DstConcatAxis(dst.padded_concat,
                                                lp.offset, lp.final_padding)]
        max_simd == IpMaxSimd(dv, dts, dst_bytes, c1.blocks[0])
    IN IF LaneModuloByZero(dv, dts, dst_bytes, c1.blocks[0])
         THEN [status |-> "fault", conf |-> c1, rt_conf |-> r1]
       ELSE IF max_simd = 1
         THEN [status |-> "unimplemented", conf |-> c1, rt_conf |-> r1]
         ELSE
    LET loads_per_thread == BytesPerWorkitem(dts) \div dts
        c2 == [c1 EXCEPT !.n = lp.nonempty_inputs, !.simd = max_simd,
                         !.data_type_size = dts,
                         !.use_large_index = ExceedsInt(dst_bytes)]
        r2 == [r1 EXCEPT !.inner_axis = dst.stride_concat]
        gws == <<div_up(dst.padded_concat * dst.dims_inner,
                     max_simd * loads_per_thread) * max_simd,
                 dst.dims_outer, 1>>
    IN IF CanUseInternalPaddingConcat2(c2.n, dts, c2.n_blocks, c2.blocks[0],
              max_simd, dst.dims_inner, dst_bytes)
         THEN [status |-> "success",
               conf |-> [c2 EXCEPT !.use_internal_padding_kernel = TRUE,
                                   !.bytes_per_workitem = BytesPerWorkitem(dts)],
               rt_conf |-> [r2 EXCEPT !.inner_axis = dst.dims_inner,
                                      !.gws_d = gws,
                                      !.lws_d = get_optimal_lws(gws)]]
         ELSE [status |-> "unimplemented", conf |-> c2, rt_conf |-> r2]

\* ---- init_conf_common (lines 321-346)
\* a layout check that lets every destination format through
FormatRejected_Never(p) == FALSE
\* line 327
FormatRejected(p) == ~p.fmt
\* a caller that tries the internal-padding strategy on every layout
IpAttempted_Always(nrm) == TRUE
\* line 338: the internal-padding strategy is tried
IpAttempted(nrm) == has_internal_padding(nrm)
\* a run that ended in an undefined operation returns nothing
Faulted(s) == s = "fault"
\* a request that runs the general strategy even after a successful attempt
IpEnds_Never(s) == FALSE
\* line 341: the status of the internal-padding strategy ends the request
IpEnds(s) == s = "success"

\* lines 333-336: the normalizer after the add_source loop over sources i..
RECURSIVE AddSources(_, _, _)
AddSources(nrm, p, i) ==
    IF i > n_inputs(p) THEN nrm ELSE AddSources(AddSource(nrm, p, i), p, i + 1)

\* an attempt that sets the pessimistic chunk size on the caller's normalizer
NormalizerAfterAttempt_Shared(nrm) == set_pessimistic_chunk_size(nrm)
\* lines 160, 170, 339: try_normalize_ip_concat2 takes the normalizer by
\* value, so the caller's normalizer after the attempt is the one before it
NormalizerAfterAttempt(nrm) == nrm

\* a fallback that hands the general strategy a fresh conf and rt_conf
PlanStrategies_FreshFallback(c, r, p, dv, nrm, ip) ==
    IF IpAttempted(nrm) /\ (IpEnds(ip.status) \/ Faulted(ip.status))
      THEN ip
      ELSE normalize_reusable_simple_concat(c, r, p, dv, nrm)
\* lines 338-345: the strategies, for a request that passed the layout checks
PlanStrategies(c, r, p, dv, nrm, ip) ==
    IF IpAttempted(nrm) /\ (IpEnds(ip.status) \/ Faulted(ip.status))
      THEN ip
      ELSE IF IpAttempted(nrm)
        THEN normalize_reusable_simple_concat(ip.conf, ip.rt_conf, p, dv,
                 NormalizerAfterAttempt(nrm))
        ELSE normalize_reusable_simple_concat(c, r, p, dv, nrm)

\* init_conf_common as a function of the request: status, conf and rt_conf
init_conf_common(p, dv, c, r) ==
    IF FormatRejected(p) \/ \E i \in 1..n_inputs(p) : ~AddSourceOk(p, i)
      THEN [status |-> "unimplemented", conf |-> c, rt_conf |-> r]
      ELSE PlanStrategies(c, r, p, dv, AddSources(NewNormalization(p), p, 1),
               IF IpAttempted(AddSources(NewNormalization(p), p, 1))
                 THEN try_normalize_ip_concat2(c, r, p, dv,
                          AddSources(NewNormalization(p), p, 1))
                 ELSE [status |-> "none", conf |-> c, rt_conf |-> r])

\* ---- the argument list (lines 372-489)
Buffer(name, g) == [kind |-> "buffer", type |-> "mem", val |-> name, grp |-> g]
\* static_cast<T>(v) appended to the list
Scalar(t, v, g) == [kind |-> "index", type |-> t, val |-> v, grp |-> g]
\* a runtime field appended without a cast: it keeps its declared type
Field(v, g) == [kind |-> "index", type |-> "declared", val |-> v, grp |-> g]
Flag(b) == [kind |-> "flag", type |-> "u8", val |-> b, grp |-> -1]

\* an index type that ignores the flag
IdxType_Narrow(c) == "i32"
\* lines 465-472 / 480-485: IDX_T
IdxType(c) == IF c.use_large_index THEN "u64" ELSE "i32"

\* a boundary taken from the padded offsets
SrcConcatAxis_Padded(c, r, valid_idx) ==
    IF valid_idx + 1 < c.n THEN r.padded_offset[valid_idx + 1]
                           ELSE r.dst_concat_axis
\* lines 392-394
SrcConcatAxis(c, r, valid_idx) ==
    IF valid_idx + 1 < c.n THEN r.offset[valid_idx + 1] ELSE r.dst_concat_axis

\* lines 380-399: the arguments of the sources i.., valid_idx being the
\* number of live sources before i
RECURSIVE PushSources(_, _, _, _, _, _)
PushSources(t, c, r, p, i, valid_idx) ==
    IF i > n_inputs(p) THEN <<>>
    ELSE IF Skipped(p, i) THEN PushSources(t, c, r, p, i + 1, valid_idx)
    ELSE <<Buffer(i, valid_idx),
           Scalar(t, r.src_extern_dim_sizes[valid_idx] \div c.data_type_size,
               valid_idx),
           Scalar(t, r.offset[valid_idx], valid_idx),
           Scalar(t, r.padded_offset[valid_idx], valid_idx),
           Scalar(t, SrcConcatAxis(c, r, valid_idx), valid_idx)>>
         \o PushSources(t, c, r, p, i + 1, valid_idx + 1)

\* a cutoff that looks at the destination boundary only
Cutoff_DstOnly(c, r) == r.dst_concat_axis % r.read_overlap # 0
\* lines 379, 397: cutoff
Cutoff(c, r) ==
    \/ r.dst_concat_axis % r.read_overlap # 0
    \/ \E k \in Slots : k < c.n /\ r.offset[k] % r.read_overlap # 0

\* lines 410-412
MustComputeExtIdx(c, r) ==
    (r.read_overlap * r.gws0_block > r.inner_axis) \/ Cutoff(c, r)

\* push_idx_kernel_args<IDX_T> (lines 372-414)
push_idx_kernel_args(t, c, r, p) ==
    PushSources(t, c, r, p, 1, 0)
    \o <<Scalar(t, r.dst_concat_axis, -1),
         Scalar(t, r.dst_padded_concat_axis, -1),
         Scalar(t, r.read_overlap, -1),
         Scalar(t, r.gws0_block, -1),
         Scalar(t, r.inner_axis, -1),
         Flag(MustComputeExtIdx(c, r))>>

\* lines 427-447
RECURSIVE PushSourcesIp(_, _, _, _, _)
PushSourcesIp(t, r, p, i, valid_idx) ==
    IF i > n_inputs(p) THEN <<>>
    ELSE IF Skipped(p, i) THEN PushSourcesIp(t, r, p, i + 1, valid_idx)
    ELSE <<Buffer(i, valid_idx),
           Scalar(t, r.offset[valid_idx], valid_idx),
           Scalar(t, r.padded_offset[valid_idx], valid_idx),
           Field(IF valid_idx = 0 THEN r.src_concat_axis0
                                  ELSE r.src_concat_axis1, valid_idx),
           Field(IF valid_idx = 0 THEN r.padded_src_concat_axis0
                                  ELSE r.padded_src_concat_axis1, valid_idx)>>
         \o PushSourcesIp(t, r, p, i + 1, valid_idx + 1)

\* push_idx_kernel_args_internal_padding<IDX_T> (lines 416-450)
push_idx_kernel_args_internal_padding(t, c, r, p) ==
    <<Scalar(t, r.dst_concat_axis, -1),
      Scalar(t, r.dst_padded_concat_axis, -1)>>
    \o PushSourcesIp(t, r, p, 1, 0)
    \o <<Scalar(t, r.inner_axis, -1)>>

\* a dispatch that always takes the general kernel
DispatchedKernel_General(c) == "kernel_"
\* lines 465, 473-474, 487: the kernel handed to parallel_for
DispatchedKernel(c) ==
    IF c.use_internal_padding_kernel THEN "internal_padding_kernel_"
                                     ELSE "kernel_"
\* lines 455-487: the kernels one call dispatches
Dispatched(c) == IF c.n = 0 THEN <<>> ELSE <<DispatchedKernel(c)>>
\* the statuses parallel_for can return
DispatchResults == {"success", "runtime_error"}
\* lines 455, 488: the status one call returns, st being parallel_for's
ExecuteReturns(c, st) == IF c.n = 0 THEN "success" ELSE st
NoDispatch == [dispatched |-> <<>>, result |-> "none", returned |-> "none"]

\* a call that appends to the list of the call before it
execute_concat_Reused(c, r, p) ==
    arg_list \o <<Buffer("dst", -1), Scalar(IdxType(c), r.dst_concat_axis, -1)>>

\* reusable_simple_concat_t::execute_concat (lines 452-489): the argument
\* list handed to parallel_for, <<>> when nothing is dispatched
execute_concat(c, r, p) ==
    IF c.n = 0 THEN <<>>
    ELSE IF c.use_internal_padding_kernel
      THEN <<Buffer("dst", -1)>>
           \o push_idx_kernel_args_internal_padding(IdxType(c), c, r, p)
      ELSE <<Buffer("dst", -1),
             Scalar("u64", r.dst_offset0, -1),
             Scalar("u64", r.dst_extern_dim_size \div c.data_type_size, -1)>>
           \o push_idx_kernel_args(IdxType(c), c, r, p)

\* ----------------------------------------------------------------- inputs
Devices ==
    {[max_sg_size |-> 32, sub_groups |-> {8, 16, 32}, hw_threads |-> 512,
      register_bytes |-> 64],
     [max_sg_size |-> 16, sub_groups |-> {8}, hw_threads |-> 64,
      register_bytes |-> 32]}

SourceLists(exts, oks) ==
    UNION {[1..n -> [ext : exts, ok : oks]] : n \in 1..MaxInputs}

\* requests whose layouts pass the checks of init_conf_common; a padded
\* destination is a small view, wide sources belong to a large problem
PlannedRequests ==
    {q \in [fmt : {TRUE}, dts : {1, 4}, blk : {1, 4}, outer : {3, 2 ^ 22},
            inner : {1, 40}, stride : {"dense", "dst", "src"},
            srcs : SourceLists(0..MaxExt, {TRUE})] :
        /\ q.stride = "dst" => q.outer = 3
        /\ q.stride = "src" => q.outer > 3}

\* requests with a destination that is not blocked or a source add_source
\* rejects
RejectedRequests ==
    {q \in [fmt : BOOLEAN, dts : {4}, blk : {1}, outer : {3}, inner : {1},
            stride : {"dense"}, srcs : SourceLists({1}, BOOLEAN)] :
        ~q.fmt \/ \E i \in 1..Len(q.srcs) : ~q.srcs[i].ok}

NoNormalization ==
    [data_type_size |-> 0, internal_padding |-> FALSE, write_size |-> 0,
     read_size |-> 0]

\* ---------------------------------------------------------------- actions
Init ==
    /\ pd \in PlannedRequests \cup RejectedRequests
    /\ dev \in Devices
    /\ pc = "format"
    /\ idx = 0
    /\ normalize = NoNormalization
    /\ conf = Conf0
    /\ rt_conf = RtConf0
    /\ status = "none"
    /\ calls = <<>>
    /\ examined = <<>>
    /\ infos = <<>>
    /\ arg_list = <<>>
    /\ dispatch = NoDispatch
    /\ execs = 0

\* lines 325-332: the format check and the construction of the normalizer
CheckFormat ==
    /\ pc = "format"
    /\ IF FormatRejected(pd)
         THEN /\ status' = "unimplemented"
              /\ pc' = "done"
              /\ UNCHANGED <<normalize, idx>>
         ELSE /\ normalize' = NewNormalization(pd)
              /\ idx' = 1
              /\ pc' = "add_source"
              /\ UNCHANGED status
    /\ UNCHANGED <<pd, dev, conf, rt_conf, calls, examined, infos, arg_list,
                   dispatch, execs>>

\* lines 333-336: one iteration of the add_source loop
AddSourceStep ==
    /\ pc = "add_source"
    /\ idx <= n_inputs(pd)
    /\ examined' = Append(examined, idx)
    /\ IF ~AddSourceOk(pd, idx)
         THEN /\ status' = "unimplemented"
              /\ pc' = "done"
              /\ UNCHANGED <<normalize, idx>>
         ELSE /\ normalize' = AddSource(normalize, pd, idx)
              /\ idx' = idx + 1
              /\ UNCHANGED <<status, pc>>
    /\ UNCHANGED <<pd, dev, conf, rt_conf, calls, infos, arg_list, dispatch,
                   execs>>

\* lines 338-342: the internal-padding strategy, tried first
TryInternalPadding ==
    /\ pc = "add_source"
    /\ idx > n_inputs(pd)
    /\ IpAttempted(normalize)
    /\ LET res == try_normalize_ip_concat2(conf, rt_conf, pd, dev, normalize)
       IN /\ conf' = res.conf
          /\ rt_conf' = res.rt_conf
          /\ calls' = Append(calls, <<"internal_padding", res.status>>)
          /\ IF IpEnds(res.status) \/ Faulted(res.status)
               THEN status' = res.status /\ pc' = "done"
               ELSE status' = status /\ pc' = "general"
    /\ normalize' = NormalizerAfterAttempt(normalize)
    /\ UNCHANGED <<pd, dev, idx, examined, infos, arg_list, dispatch, execs>>

\* lines 344-345: the general strategy
General ==
    /\ \/ pc = "general"
       \/ pc = "add_source" /\ idx > n_inputs(pd) /\ ~IpAttempted(normalize)
    /\ LET res == normalize_reusable_simple_concat(conf, rt_conf, pd, dev,
                      normalize)
       IN /\ conf' = res.conf
          /\ rt_conf' = res.rt_conf
          /\ infos' = res.infos
          /\ calls' = Append(calls, <<"general", res.status>>)
          /\ status' = res.status
          /\ pc' = "done"
    /\ UNCHANGED <<pd, dev, idx, normalize, examined, arg_list, dispatch, execs>>

\* execute_concat on the created primitive
Execute ==
    /\ pc = "done"
    /\ status = "success"
    /\ execs < MaxExec
    /\ arg_list' = execute_concat(conf, rt_conf, pd)
    /\ \E st \in DispatchResults :
         dispatch' = [dispatched |-> Dispatched(conf), result |-> st,
                      returned |-> ExecuteReturns(conf, st)]
    /\ execs' = execs + 1
    /\ UNCHANGED <<pd, dev, pc, idx, normalize, conf, rt_conf, status, calls,
                   examined, infos>>

Next ==
    \/ CheckFormat
    \/ AddSourceStep
    \/ TryInternalPadding
    \/ General
    \/ Execute

Spec == Init /\ [][Next]_vars

\* ------------------------------------- the candidate search taken alone
\* lines 73-75 applied to candidate lists with every block length, the
\* constructor of prb_info_t deciding the block of a candidate
EnumRank(c) ==
    CHOOSE k \in 1..16 :
        PairOrder[k].simd = c.simd /\ PairOrder[k].bytes = c.type_size

\* the lists the loops of lines 56-72 can build: candidates in the order of
\* enumeration, each pair at most once
CandidateLists ==
    {<<>>} \cup
    {l \in UNION {[1..n -> [simd : {32, 16, 8, 1}, type_size : {8, 4, 2, 1},
                            block : 0..MaxBlock]] : n \in 1..MaxCands} :
        \A k \in 1..(Len(l) - 1) : EnumRank(l[k]) < EnumRank(l[k + 1])}

SearchRequest ==
    [fmt |-> TRUE, dts |-> 4, blk |-> 1, outer |-> 3, inner |-> 40,
     stride |-> "dense", srcs |-> <<[ext |-> 1, ok |-> TRUE]>>]

SearchInit ==
    /\ pd = SearchRequest
    /\ dev \in Devices
    /\ pc = "search"
    /\ idx = 2
    /\ normalize = AddSources(NewNormalization(SearchRequest), SearchRequest, 1)
    /\ conf = Conf0
    /\ rt_conf = RtConf0
    /\ status = "none"
    /\ calls = <<>>
    /\ examined = <<1>>
    /\ infos \in CandidateLists
    /\ arg_list = <<>>
    /\ dispatch = NoDispatch
    /\ execs = 0

\* lines 73-75 and 128-131: the search fails, or the candidate is chosen and
\* stored
Search ==
    /\ pc = "search"
    /\ IF SearchFails(infos)
         THEN /\ status' = "unimplemented"
              /\ UNCHANGED conf
         ELSE /\ status' = "selected"
              /\ conf' = [conf EXCEPT
                            !.simd = SortedFirst(infos).simd,
                            !.data_type_size = SortedFirst(infos).type_size,
                            !.read_block = SortedFirst(infos).block]
    /\ pc' = "done"
    /\ UNCHANGED <<pd, dev, idx, normalize, rt_conf, calls, examined, infos,
                   arg_list, dispatch, execs>>

SearchNext == Search

SearchSpec == SearchInit /\ [][SearchNext]_vars

\* ------------------------------------ two sources along a concat of 1000
\* destinations of shape [outer, 1000], plain or with a block of 16 on the
\* concat axis, built from two sources that split the concat axis
ScenarioRequests ==
    {[fmt |-> TRUE, dts |-> d, blk |-> b, outer |-> o, inner |-> 1,
      stride |-> "dense",
      srcs |-> <<[ext |-> 100 * a, ok |-> TRUE],
                 [ext |-> 1000 - 100 * a, ok |-> TRUE]>>] :
        d \in {1, 2, 4}, b \in {1, 16}, o \in 1..MaxScenarioOuter, a \in 1..9}

ScenarioInit ==
    /\ pd \in ScenarioRequests
    /\ dev \in Devices
    /\ pc = "format"
    /\ idx = 0
    /\ normalize = NoNormalization
    /\ conf = Conf0
    /\ rt_conf = RtConf0
    /\ status = "none"
    /\ calls = <<>>
    /\ examined = <<>>
    /\ infos = <<>>
    /\ arg_list = <<>>
    /\ dispatch = NoDispatch
    /\ execs = 0

ScenarioSpec == ScenarioInit /\ [][Next]_vars

\* ------------------------------------- the lane search on blocked layouts
\* devices with every pattern of usable sub-group sizes the search tells apart
LaneDevices ==
    Devices \cup
    {[max_sg_size |-> 8, sub_groups |-> {8}, hw_threads |-> 64,
      register_bytes |-> 32],
     [max_sg_size |-> 32, sub_groups |-> {16, 32}, hw_threads |-> 512,
      register_bytes |-> 64]}

\* requests with padding inside a block of the concat axis: blocks the lane
\* search accepts (2 is below the supported lengths), one that is no divisor
\* of a read (12) and one longer than every lane width (64); small and large
\* destinations
LaneRequests ==
    {q \in [fmt : {TRUE}, dts : {1, 2, 4, 8}, blk : {2, 4, 8, 12, 16, 64},
            outer : {1, 3, 2 ^ 22}, inner : {1, 40}, stride : {"dense"},
            srcs : {<<[ext |-> 1, ok |-> TRUE], [ext |-> 1, ok |-> TRUE]>>,
                    <<[ext |-> 1, ok |-> TRUE], [ext |-> 2, ok |-> TRUE]>>,
                    <<[ext |-> 2, ok |-> TRUE], [ext |-> 1, ok |-> TRUE],
                      [ext |-> 1, ok |-> TRUE]>>}] :
        q.outer > 3 => q.inner = 40}

LaneInit ==
    /\ pd \in LaneRequests
    /\ dev \in LaneDevices
    /\ pc = "format"
    /\ idx = 0
    /\ normalize = NoNormalization
    /\ conf = Conf0
    /\ rt_conf = RtConf0
    /\ status = "none"
    /\ calls = <<>>
    /\ examined = <<>>
    /\ infos = <<>>
    /\ arg_list = <<>>
    /\ dispatch = NoDispatch
    /\ execs = 0

LaneSpec == LaneInit /\ [][Next]_vars
\* ------------------------------ the argument builder on general plans
\* the geometry of lines 77-154 depends on the chosen candidate through its
\* byte group and block only; here the block is drawn, so that plans whose
\* reads span several concat positions of a blocked destination occur
ArgsRequests ==
    {q \in [fmt : {TRUE}, dts : {4}, blk : {1, 4}, outer : {3},
            inner : {1, 2}, stride : {"dense"},
            srcs : SourceLists(0..MaxExt, {TRUE})] :
        LiveIdx(q) # <<>>}

ArgsInfos == [simd : {8}, type_size : {4}, block : {1, 2, 4}]

ArgsPlan(p, info) ==
    GeneralChosen(Conf0, RtConf0, p, AddSources(NewNormalization(p), p, 1),
        <<info>>, info, DstView(p))

ArgsInit ==
    /\ pd \in ArgsRequests
    /\ dev \in Devices
    /\ pc = "done"
    /\ idx = n_inputs(pd) + 1
    /\ normalize = AddSources(NewNormalization(pd), pd, 1)
    /\ \E info \in ArgsInfos :
         /\ ArgsPlan(pd, info).status = "success"
         /\ conf = ArgsPlan(pd, info).conf
         /\ rt_conf = ArgsPlan(pd, info).rt_conf
         /\ infos = <<info>>
    /\ status = "success"
    /\ calls = <<<<"general", "success">>>>
    /\ examined = [i \in 1..n_inputs(pd) |-> i]
    /\ arg_list = <<>>
    /\ dispatch = NoDispatch
    /\ execs = 0

ArgsNext == Execute

ArgsSpec == ArgsInit /\ [][ArgsNext]_vars
\* ------------------------------- the source loop on extents beyond an int
\* one-byte plain sources whose concat extents add up to more than IntMax;
\* the destination is dense, so its extents are the exact sums, kept here
\* as two-limb numbers
WideExts == {0, 1, 2 ^ 29, 2 ^ 30 + 1}

WideRequests ==
    {q \in [fmt : {TRUE}, dts : {1}, blk : {1}, outer : {1}, inner : {1},
            stride : {"dense"}, srcs : SourceLists(WideExts, {TRUE})] :
        LiveIdx(q) # <<>>}

\* the exact sum of the concat extents of the first k live sources
RECURSIVE ExactBefore(_, _, _)
ExactBefore(p, live, k) ==
    IF k = 0 THEN BigOf(0)
    ELSE BigAdd(ExactBefore(p, live, k - 1), p.srcs[live[k]].ext)
RECURSIVE ExactPaddedBefore(_, _, _)
ExactPaddedBefore(p, live, k) ==
    IF k = 0 THEN BigOf(0)
    ELSE BigAdd(ExactPaddedBefore(p, live, k - 1),
             PaddedExt(p, p.srcs[live[k]].ext))

\* memory_desc_wrapper(pd->dst_md()).size() of a dense one-row destination
WideDstBytes(p) ==
    BigMul(BigMul(ExactPaddedBefore(p, LiveIdx(p), Len(LiveIdx(p))), p.inner),
        p.dts)

\* lines 48, 78-79: the accumulators before the first source
WideLoopStart(p, r) ==
    [max_bytes |-> WideDstBytes(p), offset |-> 0, padded_offset |-> 0,
     nonempty_inputs |-> 0, final_padding |-> 0,
     offsets |-> r.offset, padded_offsets |-> r.padded_offset,
     src_extern_dim_sizes |-> r.src_extern_dim_sizes,
     axis0 |-> <<r.src_concat_axis0, r.padded_src_concat_axis0>>,
     axis1 |-> <<r.src_concat_axis1, r.padded_src_concat_axis1>>]

\* lines 104-105: std::min(dst_padded_concat_axis, offset + final_padding),
\* the first operand being the exact padded destination extent
WideDstConcatAxis(dst_padded, total) ==
    IF total < 0 \/ ~BigGt(BigOf(total), dst_padded) THEN total
    ELSE dst_padded[1] * LimbBase + dst_padded[2]

WideInit ==
    /\ pd \in WideRequests
    /\ dev \in Devices
    /\ pc = "source_loop"
    /\ idx = n_inputs(pd) + 1
    /\ normalize = AddSources(NewNormalization(pd), pd, 1)
    /\ conf = Conf0
    /\ rt_conf = RtConf0
    /\ status = "none"
    /\ calls = <<>>
    /\ examined = [i \in 1..n_inputs(pd) |-> i]
    /\ infos = <<>>
    /\ arg_list = <<>>
    /\ dispatch = NoDispatch
    /\ execs = 0

\* lines 78-105, 149-153: the source loop and the fields it decides
WideSourceLoop ==
    /\ pc = "source_loop"
    /\ LET lp == SourceLoop(pd, pd.dts, 1, WideLoopStart(pd, rt_conf))
       IN /\ rt_conf' = [rt_conf EXCEPT
                 !.offset = lp.offsets,
                 !.padded_offset = lp.padded_offsets,
                 !.src_extern_dim_sizes = lp.src_extern_dim_sizes,
                 !.dst_concat_axis =
                     WideDstConcatAxis(
                         ExactPaddedBefore(pd, LiveIdx(pd), Len(LiveIdx(pd))),
                         lp.offset + lp.final_padding)]
          /\ conf' = [conf EXCEPT
                 !.n = lp.nonempty_inputs,
                 !.data_type_size = pd.dts,
                 !.use_large_index = ExceedsInt(lp.max_bytes)]
    /\ pc' = "loop_done"
    /\ UNCHANGED <<pd, dev, idx, normalize, status, calls, examined, infos,
                   arg_list, dispatch, execs>>

\* lines 380-399: the per-source arguments of one execution
WidePush ==
    /\ pc = "loop_done"
    /\ arg_list' = PushSources(IdxType(conf), conf, rt_conf, pd, 1, 0)
    /\ pc' = "pushed"
    /\ UNCHANGED <<pd, dev, idx, normalize, conf, rt_conf, status, calls,
                   examined, infos, dispatch, execs>>

WideNext == WideSourceLoop \/ WidePush

WideSpec == WideInit /\ [][WideNext]_vars
\* ------------------------------------------------------------ properties
Done == pc = "done"
Succeeded == pc = "done" /\ status = "success"
Failed == pc = "done" /\ status = "unimplemented"
\* the add_source loop accepted every source
LayoutPassed == idx > n_inputs(pd)
IpTried == \E k \in 1..Len(calls) : calls[k][1] = "internal_padding"
GeneralRan == \E k \in 1..Len(calls) : calls[k][1] = "general"
LastCall == calls[Len(calls)]
LiveCount == Len(LiveIdx(pd))
\* index of the first source add_source rejects, 0 when there is none
FirstBad(p) ==
    IF \E i \in 1..Len(p.srcs) : ~p.srcs[i].ok
      THEN CHOOSE i \in 1..Len(p.srcs) :
             ~p.srcs[i].ok /\ \A j \in 1..(i - 1) : p.srcs[j].ok
      ELSE 0

\* C1: each strategy runs at most once and in a fixed order: the
\* internal-padding strategy only when has_internal_padding() holds and only
\* first, the general strategy exactly when the internal-padding strategy was
\* not attempted or did not succeed; the status returned is that of the last
\* strategy run.
C1_StrategyOrder ==
    /\ Len(calls) <= 2
    /\ \A k \in 1..Len(calls) :
         /\ calls[k][1] = "internal_padding" =>
              k = 1 /\ has_internal_padding(normalize)
         /\ calls[k][1] = "general" =>
              \/ k = 1 /\ ~has_internal_padding(normalize)
              \/ /\ k = 2
                 /\ calls[1][1] = "internal_padding"
                 /\ calls[1][2] # "success"
    /\ (Done /\ LayoutPassed) =>
         /\ calls # <<>>
         /\ status = LastCall[2]
         /\ has_internal_padding(normalize) => calls[1][1] = "internal_padding"
         /\ GeneralRan <=> (~IpTried \/ calls[1][2] # "success")

C1_Witness ==
    /\ Done
    /\ calls = <<<<"internal_padding", "unimplemented">>, <<"general", "success">>>>

\* C2 as stated: the internal-padding strategy is attempted if and only if
\* has_internal_padding() is true and exactly two sources are live.
C2_AttemptedIffTwoLive ==
    (Done /\ LayoutPassed) =>
        (IpTried <=> (has_internal_padding(normalize) /\ LiveCount = 2))

\* C2 amended: the internal-padding strategy is attempted if and only if
\* has_internal_padding() is true, whatever the number of live sources; it
\* succeeds only with exactly two live sources, and whenever it was not
\* attempted or did not succeed the general strategy runs and decides.
C2_AttemptedIffInternalPadding ==
    (Done /\ LayoutPassed) =>
        /\ IpTried <=> has_internal_padding(normalize)
        /\ (IpTried /\ calls[1][2] = "success") => LiveCount = 2 /\ ~GeneralRan
        /\ (~IpTried \/ LiveCount # 2) =>
             GeneralRan /\ status = LastCall[2] /\ LastCall[1] = "general"

C2_Witness ==
    /\ Done
    /\ IpTried
    /\ LiveCount = 3
    /\ GeneralRan

\* C3 as stated: after every non-success return conf and rt_conf are exactly
\* as they were before the call.
C3_FailureLeavesPlanUntouched ==
    Failed => conf = Conf0 /\ rt_conf = RtConf0

\* C3 amended: conf and rt_conf are untouched when the layout is rejected or
\* when the general strategy, run without a prior internal-padding attempt,
\* finds no viable candidate; a failure never leaves the internal-padding
\* flag set or a local size written.
C3_EarlyFailureLeavesPlanUntouched ==
    Failed =>
        /\ (calls = <<>> \/ (~IpTried /\ SearchFails(infos))) =>
             conf = Conf0 /\ rt_conf = RtConf0
        /\ ~conf.use_internal_padding_kernel
        /\ rt_conf.lws_d = RtConf0.lws_d

C3_Witness ==
    /\ Failed
    /\ calls = <<<<"general", "unimplemented">>>>
    /\ SearchFails(infos)
    /\ conf = Conf0

\* C4: a destination that is not blocked, or a source add_source rejects,
\* ends the request with unimplemented before any strategy runs, and no
\* source after the first rejected one is examined.
C4_LayoutRejectedUpfront ==
    /\ ~pd.fmt =>
         /\ examined = <<>>
         /\ calls = <<>>
         /\ pc \in {"format", "done"}
         /\ Done => status = "unimplemented"
    /\ (pd.fmt /\ FirstBad(pd) # 0) =>
         /\ calls = <<>>
         /\ Len(examined) <= FirstBad(pd)
         /\ \A k \in 1..Len(examined) : examined[k] = k
         /\ pc \in {"format", "add_source", "done"}
         /\ Done => status = "unimplemented" /\ Len(examined) = FirstBad(pd)

C4_Witness ==
    /\ Done
    /\ pd.fmt
    /\ Len(pd.srcs) = 3
    /\ ~pd.srcs[1].ok /\ ~pd.srcs[3].ok
    /\ examined = <<1>>
    /\ status = "unimplemented"

\* the per-input argument group k of a list, and what it carries
Group(list, k) == SelectSeq(list, LAMBDA e : e.grp = k)
GroupCount(list) ==
    Cardinality({list[j].grp : j \in 1..Len(list)} \ {-1})
GroupBuffer(list, k) == Group(list, k)[1].val
GroupScalars(list, k) ==
    [j \in 1..(Len(Group(list, k)) - 1) |->
        <<Group(list, k)[j + 1].type, Group(list, k)[j + 1].val>>]
\* the request with its zero-extent sources removed
LiveOnly(p) ==
    [p EXCEPT !.srcs = SelectSeq(p.srcs, LAMBDA x : PaddedExt(p, x.ext) # 0)]

\* the plan ref of the request without its zero-extent sources against the
\* plan of the request itself
SamePlan(ref) ==
    /\ ref.status = "success"
    /\ ref.conf.n = conf.n
    /\ ref.rt_conf.offset = rt_conf.offset
    /\ ref.rt_conf.padded_offset = rt_conf.padded_offset
\* the argument list other against the list of the request itself
SameGroups(other) ==
    /\ Len(arg_list) = Len(other)
    /\ \A k \in 0..(conf.n - 1) :
         GroupScalars(arg_list, k) = GroupScalars(other, k)
SameAsLiveOnly(ref) ==
    /\ SamePlan(ref)
    /\ execs > 0 => SameGroups(execute_concat(ref.conf, ref.rt_conf, LiveOnly(pd)))

\* C5: zero-extent sources are invisible: the plan and the argument list of
\* a request equal those of the same request with its zero-extent sources
\* removed (conf.n, offset, padded_offset, the per-input groups), the number
\* of groups is conf.n and the k-th group carries the k-th live source.
C5_ZeroExtentInvisible ==
    Succeeded =>
        /\ conf.n = LiveCount
        /\ SameAsLiveOnly(init_conf_common(LiveOnly(pd), dev, Conf0, RtConf0))
        /\ execs > 0 =>
             /\ GroupCount(arg_list) = conf.n
             /\ \A k \in 0..(conf.n - 1) :
                  GroupBuffer(arg_list, k) = LiveIdx(pd)[k + 1]

C5_Witness ==
    /\ Succeeded
    /\ execs > 0
    /\ n_inputs(pd) = 3
    /\ ~IsLive(pd, 2)
    /\ conf.n = 2
    /\ conf.use_internal_padding_kernel
    /\ GroupBuffer(arg_list, 1) = 3

\* the general argument list: the offset and the boundary of live input k
GeneralList == execs > 0 /\ arg_list # <<>> /\ ~conf.use_internal_padding_kernel
ArgOffset(k) == Group(arg_list, k)[3].val
ArgBoundary(k) == Group(arg_list, k)[5].val

\* C6: in the general argument list the boundary of live input k is
\* offset[k+1], or dst_concat_axis for the last one; the intervals
\* [offset[k], boundary[k]) are increasing, disjoint and cover exactly
\* [0, dst_concat_axis).
C6_BoundariesTile ==
    GeneralList =>
        /\ \A k \in 0..(conf.n - 1) :
             /\ ArgOffset(k) = rt_conf.offset[k]
             /\ ArgBoundary(k) = IF k + 1 < conf.n THEN rt_conf.offset[k + 1]
                                                  ELSE rt_conf.dst_concat_axis
             /\ ArgOffset(k) < ArgBoundary(k)
             /\ k + 1 < conf.n => ArgBoundary(k) = ArgOffset(k + 1)
        /\ ArgOffset(0) = 0
        /\ ArgBoundary(conf.n - 1) = rt_conf.dst_concat_axis
        /\ \A x \in 0..(rt_conf.dst_concat_axis - 1) :
             Cardinality({k \in 0..(conf.n - 1) :
                 ArgOffset(k) <= x /\ x < ArgBoundary(k)}) = 1

C6_Witness ==
    /\ GeneralList
    /\ conf.n = 3
    /\ rt_conf.dst_concat_axis > DstView(pd).dims_concat
    /\ ArgBoundary(1) = rt_conf.offset[2]

\* the sum of the logical concat extents the planner recorded, and paddings
RecordedSum ==
    rt_conf.offset[conf.n - 1] + pd.srcs[LiveIdx(pd)[conf.n]].ext
LastLivePadding ==
    PaddedExt(pd, pd.srcs[LiveIdx(pd)[conf.n]].ext)
        - pd.srcs[LiveIdx(pd)[conf.n]].ext
SourcePadding ==
    SumSeq([i \in 1..n_inputs(pd) |->
        PaddedExt(pd, pd.srcs[i].ext) - pd.srcs[i].ext])
DstPadding == DstView(pd).padded_concat - DstView(pd).dims_concat

\* C7 as stated: when the destination has no padding beyond that of the
\* sources, the sum of the logical concat extents equals dst_concat_axis.
C7_SumEqualsDstConcatAxis ==
    (Succeeded /\ DstPadding <= SourcePadding) =>
        RecordedSum = rt_conf.dst_concat_axis

\* C7 amended: the sum of the logical concat extents is the destination's
\* logical extent, and dst_concat_axis exceeds it by the smaller of the
\* destination's padding and the last live source's padding; the two are
\* equal exactly when one of these paddings is zero.
C7_SumPlusLastPadding ==
    Succeeded =>
        /\ RecordedSum = DstView(pd).dims_concat
        /\ rt_conf.dst_concat_axis = RecordedSum + Min(DstPadding, LastLivePadding)
        /\ (DstPadding = 0 \/ LastLivePadding = 0) <=>
             RecordedSum = rt_conf.dst_concat_axis

C7_Witness ==
    /\ Succeeded
    /\ pd.blk > 1
    /\ LastLivePadding > 0
    /\ DstPadding = 0
    /\ conf.n = 2
    /\ RecordedSum = rt_conf.dst_concat_axis

\* C8: for every successful plan use_large_index is true if and only if the
\* byte size of the destination or of a live source exceeds 2^31-1.
C8_LargeIndexIffAnyTensorLarge ==
    Succeeded =>
        (conf.use_large_index <=>
            \/ ExceedsInt(DstBytes(pd))
            \/ \E i \in 1..n_inputs(pd) :
                 IsLive(pd, i) /\ ExceedsInt(SrcBytes(pd, i)))

\* the width use_large_index stands for
FlagWidth == IF conf.use_large_index THEN "u64" ELSE "i32"

\* C9 as stated: every index argument of one list has the width chosen by
\* use_large_index (arguments appended without a cast are left aside).
C9_AllIndexArgsOneWidth ==
    execs > 0 =>
        \A j \in 1..Len(arg_list) :
            (arg_list[j].kind = "index" /\ arg_list[j].type # "declared") =>
                arg_list[j].type = FlagWidth

\* C9 amended: every argument appended through static_cast<IDX_T> has the
\* width chosen by use_large_index; the general list always carries
\* dst_offset0 and the destination's outer stride as 64-bit arguments, and
\* the internal-padding list carries the two sources' concat extents with
\* their declared type.
C9_CastArgsOneWidth ==
    (execs > 0 /\ arg_list # <<>>) =>
        /\ \A j \in 1..Len(arg_list) :
             arg_list[j].kind = "index" =>
               \/ arg_list[j].type = FlagWidth
               \/ /\ ~conf.use_internal_padding_kernel
                  /\ j \in {2, 3}
                  /\ arg_list[j].type = "u64"
               \/ /\ conf.use_internal_padding_kernel
                  /\ arg_list[j].type = "declared"
                  /\ arg_list[j].grp \in {0, 1}
        /\ ~conf.use_internal_padding_kernel =>
             /\ arg_list[2].type = "u64" /\ arg_list[3].type = "u64"
             /\ \A j \in 4..(Len(arg_list) - 1) :
                  arg_list[j].kind = "index" => arg_list[j].type = FlagWidth
        /\ conf.use_internal_padding_kernel =>
             /\ arg_list[2].type = FlagWidth
             /\ arg_list[Len(arg_list)].type = FlagWidth

C9_Witness ==
    /\ execs > 0
    /\ FlagWidth = "i32"
    /\ arg_list # <<>>
    /\ ~conf.use_internal_padding_kernel
    /\ ~conf.use_large_index
    /\ arg_list[2].type = "u64"
    /\ arg_list[4].kind = "buffer"
    /\ arg_list[5].type = "i32"

\* the candidate search ran: infos holds what it accepted
Searched == Done /\ GeneralRan
InInfos(simd, bytes) ==
    \E k \in 1..Len(infos) :
        infos[k].simd = simd /\ infos[k].type_size = bytes
\* max_elems is the least multiple of register_bytes / bytes that is not
\* below simd * total_elems / hw_threads: it is not below simd exactly when
\* the largest such multiple below simd is too small
TotalElems(bytes) == BigDiv(DstBytes(pd), bytes)
MaxElemsNotBelow(simd, bytes) ==
    BigGt(BigMul(TotalElems(bytes), simd),
          BigOf((((simd - 1) \div (dev.register_bytes \div bytes))
                   * (dev.register_bytes \div bytes)) * dev.hw_threads))
DividesDstBytes(bytes) == BigMod(DstBytes(pd), bytes) = 0
UsablePairs ==
    {q \in [simd : {32, 16, 8, 1}, bytes : {8, 4, 2, 1}] : SimdUsable(dev, q.simd)}

\* C10 as stated: a pair is accepted if and only if the byte group divides
\* the maximum write size, divides the destination's byte size, and
\* max_elems is not smaller than the lane width.
C10_AcceptedIffThreeConditions ==
    Searched =>
        \A q \in UsablePairs :
            InInfos(q.simd, q.bytes) <=>
                /\ max_write_size(normalize) % q.bytes = 0
                /\ DividesDstBytes(q.bytes)
                /\ MaxElemsNotBelow(q.simd, q.bytes)

\* C10 amended: a pair is accepted if and only if the lane width passes the
\* device filter, the byte group divides the maximum write size, and
\* max_elems, computed with total_elems = floor(dst bytes / byte group), is
\* not smaller than the lane width; the general strategy selects only an
\* accepted pair.
C10_AcceptedIffTwoConditions ==
    Searched =>
        /\ \A q \in [simd : {32, 16, 8, 1}, bytes : {8, 4, 2, 1}] :
             InInfos(q.simd, q.bytes) <=>
                 /\ q \in UsablePairs
                 /\ max_write_size(normalize) % q.bytes = 0
                 /\ MaxElemsNotBelow(q.simd, q.bytes)
        /\ (status = "success" /\ ~conf.use_internal_padding_kernel) =>
             InInfos(conf.simd, conf.data_type_size)

C10_Witness ==
    /\ Searched
    /\ status = "success"
    /\ InInfos(8, 4)
    /\ ~DividesDstBytes(4)
    /\ \E q \in UsablePairs :
         max_write_size(normalize) % q.bytes = 0 /\ ~InInfos(q.simd, q.bytes)
    /\ \E q \in UsablePairs : max_write_size(normalize) % q.bytes # 0

\* the candidate the search stored, and the ranking of the candidates
Selected == pc = "done" /\ status = "selected"
ChosenInfo ==
    [simd |-> conf.simd, type_size |-> conf.data_type_size,
     block |-> conf.read_block]
Outranks(a, b) ==
    \/ a.block > b.block
    \/ a.block = b.block /\ a.simd > b.simd
    \/ a.block = b.block /\ a.simd = b.simd /\ a.type_size < b.type_size
Reversed(l) == [k \in 1..Len(l) |-> l[Len(l) + 1 - k]]

GeneralSelected ==
    /\ Done
    /\ calls # <<>>
    /\ LastCall[1] = "general"
    /\ ~SearchFails(infos)
PaddedFourfold == 4 * DstView(pd).dims_concat <= DstView(pd).padded_concat

\* C14 as stated: a selected byte group of 1 with a destination padded to at
\* least 4 times its logical concat extent always ends in failure.
C14_SingleByteGroupRejected ==
    (GeneralSelected /\ conf.data_type_size = 1 /\ PaddedFourfold) =>
        status = "unimplemented"

\* C14 amended: with a destination padded to at least 4 times its logical
\* concat extent the general strategy fails when the write granularity is a
\* single byte (write_block * byte group = 1); a byte group of 1 with a write
\* block of several elements is planned and succeeds.
C14_SingleByteWriteRejected ==
    (GeneralSelected /\ PaddedFourfold) =>
        /\ conf.write_block * conf.data_type_size = 1 => status = "unimplemented"
        /\ (conf.data_type_size = 1 /\ conf.write_block > 1) => status = "success"

C14_Witness ==
    /\ GeneralSelected
    /\ PaddedFourfold
    /\ conf.data_type_size = 1
    /\ conf.write_block = 1
    /\ status = "unimplemented"
    /\ conf.n = 1

\* C15: once a candidate is selected the general strategy returns
\* unimplemented if and only if write_block * data_type_size = 1 and
\* 4 * logical destination concat extent <= padded extent, and success in
\* every other case.
C15_RejectedIffSingleByteAndPadded ==
    GeneralSelected =>
        /\ status \in {"unimplemented", "success"}
        /\ conf.write_block =
             Min(conf.read_block,
                 max_write_size(normalize) \div conf.data_type_size)
        /\ status = "unimplemented" <=>
             /\ conf.write_block * conf.data_type_size = 1
             /\ 4 * DstView(pd).dims_concat <= DstView(pd).padded_concat

C15_Witness ==
    /\ GeneralSelected
    /\ status = "success"
    /\ conf.write_block * conf.data_type_size = 1
    /\ ~PaddedFourfold
    /\ DstView(pd).padded_concat > DstView(pd).dims_concat

\* the outcome res of another run of the planner against this run's outcome
SameOutcome(res) ==
    /\ status = res.status
    /\ conf = res.conf
    /\ rt_conf = res.rt_conf

GroupKinds(list, k) ==
    [j \in 1..Len(Group(list, k)) |-> Group(list, k)[j].kind]
GeneralLayout(list, n) ==
    /\ Len(list) = 9 + 5 * n
    /\ list[1].kind = "buffer" /\ list[1].val = "dst"
    /\ list[2].kind = "index" /\ list[3].kind = "index"
    /\ list[4].grp = 0
    /\ list[Len(list)].kind = "flag"
    /\ \A k \in 0..(n - 1) :
         GroupKinds(list, k) = <<"buffer", "index", "index", "index", "index">>
InternalPaddingLayout(list, n) ==
    /\ Len(list) = 4 + 5 * n
    /\ list[1].kind = "buffer" /\ list[1].val = "dst"
    /\ list[2].kind = "index" /\ list[3].kind = "index"
    /\ list[4].grp = 0
    /\ list[Len(list)].kind = "index"
    /\ \A j \in 1..Len(list) : list[j].kind # "flag"
    /\ \A k \in 0..(n - 1) :
         /\ GroupKinds(list, k) = <<"buffer", "index", "index", "index", "index">>
         /\ Group(list, k)[4].type = "declared"

\* C18: on a successful plan use_internal_padding_kernel is set exactly when
\* the internal-padding strategy produced the plan; each execute_concat call
\* dispatches one kernel, the internal-padding kernel with the
\* internal-padding argument layout when the flag is set and the general
\* kernel with the general layout otherwise, and returns the status of that
\* dispatch; with conf.n = 0 nothing is dispatched and success is returned.
C18_FlagSelectsKernel ==
    Succeeded =>
        /\ conf.use_internal_padding_kernel <=> LastCall[1] = "internal_padding"
        /\ Dispatched([conf EXCEPT !.n = 0]) = <<>>
        /\ ExecuteReturns([conf EXCEPT !.n = 0], "runtime_error") = "success"
        /\ execs > 0 =>
             /\ Len(dispatch.dispatched) = 1
             /\ dispatch.returned = dispatch.result
             /\ conf.use_internal_padding_kernel =>
                  /\ dispatch.dispatched[1] = "internal_padding_kernel_"
                  /\ InternalPaddingLayout(arg_list, conf.n)
             /\ ~conf.use_internal_padding_kernel =>
                  /\ dispatch.dispatched[1] = "kernel_"
                  /\ GeneralLayout(arg_list, conf.n)

C18_Witness ==
    /\ Succeeded
    /\ execs > 0
    /\ conf.use_internal_padding_kernel
    /\ dispatch.dispatched = <<"internal_padding_kernel_">>
    /\ dispatch.returned = "runtime_error"

\* the scenario: [4, 1000] from float32 sources of 600 and 400, on a device
\* with sub-groups of 32, 16, 8, 64-byte registers and 512 threads
IsScenario ==
    /\ pd.outer = 4 /\ pd.dts = 4 /\ pd.blk = 1
    /\ pd.srcs[1].ext = 600 /\ pd.srcs[2].ext = 400
    /\ dev.max_sg_size = 32 /\ dev.register_bytes = 64 /\ dev.hw_threads = 512
ScenarioGeometry ==
    /\ conf.n = 2
    /\ conf.simd <= 32
    /\ rt_conf.offset[0] = 0 /\ rt_conf.offset[1] = 600
    /\ rt_conf.padded_offset[0] = 0 /\ rt_conf.padded_offset[1] = 600
    /\ rt_conf.dst_concat_axis = 1000

LogicalBefore(k) ==
    SumSeq([j \in 1..k |-> pd.srcs[LiveIdx(pd)[j]].ext])
PaddedBefore(k) ==
    SumSeq([j \in 1..k |-> PaddedExt(pd, pd.srcs[LiveIdx(pd)[j]].ext)])

\* C20: in a successful plan of either strategy offset[k] is the sum of the
\* logical and padded_offset[k] the sum of the padded concat extents of the
\* live sources before position k, both start at 0, never decrease and
\* offset[k] <= padded_offset[k]; dst_concat_axis is the smaller of the
\* destination's padded extent and the total logical extent plus the padding
\* of the last live source alone.
C20_OffsetsAreRunningSums ==
    Succeeded =>
        /\ conf.n = LiveCount
        /\ \A k \in 0..(conf.n - 1) :
             /\ rt_conf.offset[k] = LogicalBefore(k)
             /\ rt_conf.padded_offset[k] = PaddedBefore(k)
             /\ rt_conf.offset[k] <= rt_conf.padded_offset[k]
             /\ k > 0 => /\ rt_conf.offset[k - 1] <= rt_conf.offset[k]
                         /\ rt_conf.padded_offset[k - 1] <= rt_conf.padded_offset[k]
        /\ rt_conf.offset[0] = 0 /\ rt_conf.padded_offset[0] = 0
        /\ rt_conf.dst_concat_axis =
             Min(DstView(pd).padded_concat,
                 LogicalBefore(conf.n) + LastLivePadding)

C20_Witness ==
    /\ Succeeded
    /\ LastCall[1] = "internal_padding"
    /\ conf.n = 2
    /\ rt_conf.padded_offset[1] > rt_conf.offset[1]
    /\ rt_conf.dst_concat_axis < PaddedBefore(conf.n)

\* the general strategy produced the successful plan
GeneralSucceeded == Succeeded /\ LastCall[1] = "general"
\* line 125: the destination's padded inner extent in units of the byte group
ScaledInner == (DstView(pd).padded_inner * pd.dts) \div conf.data_type_size
\* line 136
SharedRead == gcd(ScaledInner, conf.read_block)

\* C21: on every successful general plan, with g = gcd(inner_axis,
\* read_block), gws0_block = inner_axis * read_block / g, read_overlap =
\* gws0_block / inner_axis = read_block / g without remainder, and the global
\* size is (gws0_block * simd / read_block, outer / read_overlap, sum of the
\* padded concat extents of the live sources), the first an exact division
\* equal to (inner_axis / g) * simd.
C21_GeneralGeometry ==
    GeneralSucceeded =>
        /\ rt_conf.gws0_block * SharedRead = ScaledInner * conf.read_block
        /\ rt_conf.read_overlap * ScaledInner = rt_conf.gws0_block
        /\ rt_conf.read_overlap * SharedRead = conf.read_block
        /\ rt_conf.gws_d[1] * conf.read_block = rt_conf.gws0_block * conf.simd
        /\ rt_conf.gws_d[1] * SharedRead = ScaledInner * conf.simd
        /\ rt_conf.gws_d[2] = DstView(pd).dims_outer \div rt_conf.read_overlap
        /\ rt_conf.gws_d[3] = PaddedBefore(conf.n)

C21_Witness ==
    /\ GeneralSucceeded
    /\ SharedRead > 1
    /\ rt_conf.read_overlap > 1
    /\ ScaledInner > 1
    /\ conf.n = 2

\* the state right after try_normalize_ip_concat2 returned
IpJustRan == calls # <<>> /\ LastCall[1] = "internal_padding"
\* the first concat block length and the element count of the destination
FirstBlock == pd.blk
DstElems == BigDiv(DstBytes(pd), pd.dts)
\* the lane widths that qualify in the lane search
Qualifying ==
    {w \in {32, 16, 8, 1} :
        /\ w <= dev.max_sg_size
        /\ (w > 1 => w \in dev.sub_groups)
        /\ ~BigGt(BigOf(w), DstElems)
        /\ (w * ((IF pd.dts = 8 THEN 8 ELSE 16) \div pd.dts)) % FirstBlock = 0
        /\ w * ((IF pd.dts = 8 THEN 8 ELSE 16) \div pd.dts) >= FirstBlock
        /\ w >= FirstBlock}
\* the attempt returned before line 260 stored a lane width
FailedAtLaneSearch == IpJustRan /\ LastCall[2] = "unimplemented" /\ conf.simd = 0

\* C22: the internal-padding strategy selects the largest usable lane width
\* (32, 16, 8, 1, at most the maximum sub-group size and the destination's
\* element count) whose elems_per_simd is a multiple of the first concat
\* block, at least that block, and whose width is at least that block; it
\* fails at this step if and only if no lane width qualifies.
C22_LargestQualifyingLane ==
    IpJustRan =>
        /\ FailedAtLaneSearch <=> Qualifying = {}
        /\ ~FailedAtLaneSearch => conf.simd = SetMax(Qualifying)

C22_Witness ==
    /\ IpJustRan
    /\ ~FailedAtLaneSearch
    /\ conf.simd = 32
    /\ 16 \in Qualifying
    /\ 8 \notin Qualifying
    /\ FirstBlock = 16

IpSucceeded == IpJustRan /\ LastCall[2] = "success"
\* line 271: loads_per_thread
LoadsPerThread == (IF pd.dts = 8 THEN 8 ELSE 16) \div pd.dts

\* C23: try_normalize_ip_concat2 returns success only if exactly two sources
\* are live, the destination has a concat block whose first length is 4, 8,
\* 16 or 32, the element size is at least 4 bytes or element size times that
\* length is, the destination has more than 500,000 bytes, and first block
\* length times inner extent exceeds lane width times loads per thread; when
\* one of them fails it returns unimplemented.
C23_SuccessNeedsAllHeuristics ==
    IpSucceeded =>
        /\ Succeeded
        /\ conf.n = 2 /\ LiveCount = 2
        /\ DstView(pd).inner_blks # <<>>
        /\ FirstBlock \in {4, 8, 16, 32}
        /\ pd.dts >= 4 \/ pd.dts * FirstBlock >= 4
        /\ BigGt(DstBytes(pd), BigOf(500000))
        /\ FirstBlock * DstView(pd).dims_inner > conf.simd * LoadsPerThread

C23_Witness ==
    /\ IpSucceeded
    /\ pd.dts < 4
    /\ FirstBlock = 16
    /\ conf.simd = 32
    /\ execs > 0

\* padded concat extent times inner extent: the elements of one outer row
RowElems == DstView(pd).padded_concat * DstView(pd).dims_inner

\* C24: on every successful internal-padding plan the global size is
\* (ceil(padded concat extent * inner extent / (simd * loads_per_thread)) *
\* simd, outer extent, 1) with loads_per_thread = bytes_per_workitem /
\* element size: gws[0] is a multiple of simd, gws[0] * loads_per_thread
\* covers a row and exceeds it by less than simd * loads_per_thread.
C24_InternalPaddingGws ==
    IpSucceeded =>
        /\ conf.bytes_per_workitem = LoadsPerThread * pd.dts
        /\ rt_conf.gws_d[1] % conf.simd = 0
        /\ rt_conf.gws_d[1] * LoadsPerThread >= RowElems
        /\ rt_conf.gws_d[1] * LoadsPerThread - RowElems
             < conf.simd * LoadsPerThread
        /\ rt_conf.gws_d[2] = DstView(pd).dims_outer
        /\ rt_conf.gws_d[3] = 1

C24_Witness ==
    /\ IpSucceeded
    /\ rt_conf.gws_d[1] * LoadsPerThread > RowElems
    /\ rt_conf.gws_d[1] > conf.simd

\* the last argument of the list
LastArg == arg_list[Len(arg_list)]
\* a read block that crosses into the next row of the stored inner extent
ReadsCrossRows == rt_conf.read_overlap * rt_conf.gws0_block > rt_conf.inner_axis
\* the logical offset of a live source is no multiple of the overlap
LiveOffsetCut ==
    \E k \in 0..(LiveCount - 1) : LogicalBefore(k) % rt_conf.read_overlap # 0

\* C25: the flag push_idx_kernel_args appends last is true if and only if
\* read_overlap * gws0_block > rt_conf.inner_axis, or dst_concat_axis is no
\* multiple of read_overlap, or the logical offset of a live source is no
\* multiple of read_overlap; zero-extent sources have no part in it.
C25_ExtIdxFlag ==
    (GeneralSucceeded /\ execs > 0) =>
        /\ LastArg.kind = "flag"
        /\ LastArg.val <=>
             \/ ReadsCrossRows
             \/ rt_conf.dst_concat_axis % rt_conf.read_overlap # 0
             \/ LiveOffsetCut

C25_Witness ==
    /\ GeneralSucceeded
    /\ execs > 0
    /\ LastArg.val
    /\ ~ReadsCrossRows
    /\ rt_conf.dst_concat_axis % rt_conf.read_overlap = 0
    /\ LiveOffsetCut
    /\ LiveCount < n_inputs(pd)

C28_FirstBlockWritten ==
    IpJustRan =>
        /\ status # "fault"
        /\ has_internal_padding(normalize)
        /\ \E k \in 1..Len(DstView(pd).inner_blks) :
             DstView(pd).inner_blks[k].idx = "concat"
        /\ conf.n_blocks >= 1
        /\ conf.blocks[0] = FirstBlock
        /\ conf.blocks[0] # 0

C28_Witness ==
    /\ IpJustRan
    /\ LastCall[2] = "unimplemented"
    /\ conf.simd # 0
    /\ conf.blocks[0] = 4
    /\ LiveCount = 3

\* ---- C29
\* a recorded int holds the exact number
HoldsExactly(n, exact) == n >= 0 /\ BigOf(n) = exact
WideLooped == pc \in {"loop_done", "pushed"}

\* C29: for a plan with use_large_index set, the logical and padded
\* offsets recorded for every live input are the exact sums of the concat
\* extents of the live sources before it, and the offset arguments pushed
\* at execution carry these sums.
C29_OffsetsExact ==
    (WideLooped /\ conf.use_large_index) =>
        \A k \in Slots : k < conf.n =>
            /\ HoldsExactly(rt_conf.offset[k],
                   ExactBefore(pd, LiveIdx(pd), k))
            /\ HoldsExactly(rt_conf.padded_offset[k],
                   ExactPaddedBefore(pd, LiveIdx(pd), k))
            /\ pc = "pushed" =>
                   /\ HoldsExactly(ArgOffset(k),
                          ExactBefore(pd, LiveIdx(pd), k))
                   /\ Group(arg_list, k)[3].type = "u64"

\* ---- C30
\* the internal-padding attempt failed and the general strategy succeeded
FellBackToGeneral ==
    /\ Succeeded
    /\ Len(calls) = 2
    /\ calls[1] = <<"internal_padding", "unimplemented">>
    /\ calls[2] = <<"general", "success">>
\* the general strategy run alone on this request
GeneralAlone ==
    normalize_reusable_simple_concat(Conf0, RtConf0, pd, dev,
        AddSources(NewNormalization(pd), pd, 1))
\* the fields the general kernel context, the general argument builder and
\* the dispatch read from conf c and rt_conf r agree with those of c2 and r2
SameGeneralFields(c, r, c2, r2) ==
    /\ c.n = c2.n
    /\ c.simd = c2.simd
    /\ c.data_type_size = c2.data_type_size
    /\ c.read_block = c2.read_block
    /\ c.write_block = c2.write_block
    /\ c.n_blocks = c2.n_blocks
    /\ \A b \in BlockSlots : b < c.n_blocks =>
           c.blocks[b] = c2.blocks[b] /\ c.strides[b] = c2.strides[b]
    /\ c.use_large_index = c2.use_large_index
    /\ c.use_internal_padding_kernel = c2.use_internal_padding_kernel
    /\ \A k \in Slots : k < c.n =>
           /\ r.offset[k] = r2.offset[k]
           /\ r.padded_offset[k] = r2.padded_offset[k]
           /\ r.src_extern_dim_sizes[k] = r2.src_extern_dim_sizes[k]
    /\ r.dst_extern_dim_size = r2.dst_extern_dim_size
    /\ r.dst_concat_axis = r2.dst_concat_axis
    /\ r.dst_padded_concat_axis = r2.dst_padded_concat_axis
    /\ r.dst_offset0 = r2.dst_offset0
    /\ r.inner_axis = r2.inner_axis
    /\ r.gws0_block = r2.gws0_block
    /\ r.read_overlap = r2.read_overlap
    /\ r.gws_d = r2.gws_d
    /\ r.lws_d = r2.lws_d

\* C30: when the internal-padding attempt fails and the general strategy
\* then succeeds, every field the general kernel, its argument builder and
\* the dispatch read equals the field of the plan the general strategy
\* builds alone from a default conf and rt_conf with the normalizer of the
\* add_source loop; the general kernel is the one selected, and the
\* caller's normalizer keeps its chunk sizes across the failed attempt.
C30_FallbackEqualsGeneralAlone ==
    FellBackToGeneral =>
        /\ GeneralAlone.status = "success"
        /\ SameGeneralFields(conf, rt_conf, GeneralAlone.conf,
               GeneralAlone.rt_conf)
        /\ ~conf.use_internal_padding_kernel
        /\ normalize = AddSources(NewNormalization(pd), pd, 1)

C30_Witness ==
    /\ FellBackToGeneral
    /\ max_write_size(normalize) > normalize.data_type_size
    /\ rt_conf # GeneralAlone.rt_conf
    /\ SameGeneralFields(conf, rt_conf, GeneralAlone.conf,
           GeneralAlone.rt_conf)

====
